---- MODULE Spec2Model ----
(***************************************************************************)
(* Model of dijkstra(G, origem, destino) of src/main.py: a single-source,  *)
(* single-target shortest-path search over a NetworkX graph, with a        *)
(* binary heap of (distance, node) tuples and lazy deletion.               *)
(***************************************************************************)
EXTENDS Integers, Sequences, FiniteSets, TLC

\* ---------------------------------------------------------------- bounds
\* Nodes of the graph, largest edge weight, largest parallel-edge key, and the
\* number of edges of a simple graph and of a multigraph.
NumNodes == 4
MaxWeight == 2
MaxKey == 1
MaxEdges == 3
MaxMultiEdges == 2

\* ------------------------------------------------------------ the graph
\* predecessores[node] = None
None == 0

Nodes == 1..NumNodes

\* A node identifier that is not a node of the graph.
Absent == NumNodes + 1

\* float('infinity'): larger than every finite label of the model.
Infinity == NumNodes * MaxWeight + 1

Weights == 0..MaxWeight

NegativeWeights == {-1}

Keys == 0..MaxKey

\* Unordered pairs of nodes; {n} is the self-loop on n.
Pairs == {{u, v} : u, v \in Nodes}

\* Edge attribute dictionaries: with a 'length', or without one.
Attrs(W) == {[length |-> w] : w \in W} \cup {[osmid |-> 0]}

SmallSubsets(S, n) == {E \in SUBSET S : Cardinality(E) <= n}

\* nx.MultiGraph: G[u][v] is a dictionary key -> attribute dictionary, held as
\* the set of its items, one per key.
MkMulti(f) ==
    [multigraph |-> TRUE,
     nodes |-> Nodes,
     adj |-> [p \in {s[1] : s \in DOMAIN f} |->
                {[key |-> s[2], attr |-> f[s]] : s \in {t \in DOMAIN f : t[1] = p}}]]

MultiGraphs(W) ==
    {MkMulti(f) : f \in UNION {[E -> Attrs(W)] : E \in SmallSubsets(Pairs \X Keys, MaxMultiEdges)}}

\* nx.Graph: G[u][v] is the attribute dictionary of the one edge.
MkSimple(f) == [multigraph |-> FALSE, nodes |-> Nodes, adj |-> f]

SimpleGraphs(W) ==
    {MkSimple(f) : f \in UNION {[E -> Attrs(W)] : E \in SmallSubsets(Pairs, MaxEdges)}}

\* G.neighbors(n), for n a node of the graph.
Neighbors(g, n) == {v \in g.nodes : {n, v} \in DOMAIN g.adj}

HasLength(attr) == "length" \in DOMAIN attr

\* k in keydict, and keydict[k].
HasKey(keydict, k) == \E e \in keydict : e.key = k

Item(keydict, k) == (CHOOSE e \in keydict : e.key = k).attr

\* The try/except of the relaxation: G[u][v][0]['length'], else
\* G[u][v]['length'], else no weight (the neighbour is skipped).
\* On a MultiGraph the second lookup asks the key dictionary for the key
\* 'length' and fails; on a Graph the first asks the attributes for 0 and fails.
HasPeso(g, u, v) ==
    IF g.multigraph
    THEN HasKey(g.adj[{u, v}], 0) /\ HasLength(Item(g.adj[{u, v}], 0))
    ELSE HasLength(g.adj[{u, v}])

Peso(g, u, v) ==
    IF g.multigraph THEN Item(g.adj[{u, v}], 0).length ELSE g.adj[{u, v}].length

\* ------------------------------------------------------------ the state
VARIABLES G, origem, destino, distancias, pq, predecessores, visitados,
          dist_atual, no_atual, vizinhos, caminho, pc, result

vars == <<G, origem, destino, distancias, pq, predecessores, visitados,
          dist_atual, no_atual, vizinhos, caminho, pc, result>>

input == <<G, origem, destino>>

NoResult == [kind |-> "none"]

\* The call dijkstra(G, origem, destino), before its first statement.
Call(graphs) ==
    /\ G \in graphs
    /\ origem \in Nodes \cup {Absent}
    /\ destino \in Nodes \cup {Absent}
    /\ distancias = <<>>
    /\ pq = {}
    /\ predecessores = <<>>
    /\ visitados = {}
    /\ dist_atual = 0
    /\ no_atual = None
    /\ vizinhos = {}
    /\ caminho = <<>>
    /\ pc = "call"
    /\ result = NoResult

Init == Call(MultiGraphs(Weights)) \/ Call(SimpleGraphs(Weights))

\* heapq.heappop: the least (distance, node) tuple.
HeapMin(h) ==
    CHOOSE e \in h : \A f \in h : e[1] < f[1] \/ (e[1] = f[1] /\ e[2] <= f[2])

\* Initialize with the predecessor map keyed by the origin and destination too.
Initialize_KeyedByQuery ==
    /\ pc = "call"
    /\ distancias' = [n \in G.nodes \cup {origem} |-> IF n = origem THEN 0 ELSE Infinity]
    /\ pq' = {<<0, origem>>}
    /\ predecessores' = [n \in G.nodes \cup {origem, destino} |-> None]
    /\ visitados' = {}
    /\ pc' = "while"
    /\ UNCHANGED <<input, dist_atual, no_atual, vizinhos, caminho, result>>

\* Lines 50-60.
Initialize ==
    /\ pc = "call"
    /\ distancias' = [n \in G.nodes \cup {origem} |-> IF n = origem THEN 0 ELSE Infinity]
    /\ pq' = {<<0, origem>>}
    /\ predecessores' = [n \in G.nodes |-> None]
    /\ visitados' = {}
    /\ pc' = "while"
    /\ UNCHANGED <<input, dist_atual, no_atual, vizinhos, caminho, result>>

\* Line 62, the queue is empty: the loop ends.
WhileExit ==
    /\ pc = "while"
    /\ pq = {}
    /\ pc' = "reconstruct"
    /\ UNCHANGED <<input, distancias, pq, predecessores, visitados, dist_atual,
                   no_atual, vizinhos, caminho, result>>

\* Lines 64-68: the destination is extracted, break.
PopBreak ==
    /\ pc = "while"
    /\ pq # {}
    /\ LET e == HeapMin(pq) IN
        /\ e[2] = destino
        /\ pq' = pq \ {e}
        /\ dist_atual' = e[1]
        /\ no_atual' = e[2]
    /\ pc' = "reconstruct"
    /\ UNCHANGED <<input, distancias, predecessores, visitados, vizinhos, caminho, result>>

\* Lines 64-72: a visited node is extracted, continue.
PopSkip ==
    /\ pc = "while"
    /\ pq # {}
    /\ LET e == HeapMin(pq) IN
        /\ e[2] # destino
        /\ e[2] \in visitados
        /\ pq' = pq \ {e}
        /\ dist_atual' = e[1]
        /\ no_atual' = e[2]
    /\ pc' = "while"
    /\ UNCHANGED <<input, distancias, predecessores, visitados, vizinhos, caminho, result>>

\* PopVisit without the test of the visited set.
PopVisit_NoVisitedTest ==
    /\ pc = "while"
    /\ pq # {}
    /\ LET e == HeapMin(pq) IN
        /\ e[2] # destino
        /\ e[2] \in G.nodes
        /\ pq' = pq \ {e}
        /\ dist_atual' = e[1]
        /\ no_atual' = e[2]
        /\ visitados' = visitados \cup {e[2]}
        /\ vizinhos' = Neighbors(G, e[2])
    /\ pc' = "for"
    /\ UNCHANGED <<input, distancias, predecessores, caminho, result>>

\* Lines 64-78: an unvisited node is extracted and marked; G.neighbors starts.
PopVisit ==
    /\ pc = "while"
    /\ pq # {}
    /\ LET e == HeapMin(pq) IN
        /\ e[2] # destino
        /\ e[2] \notin visitados
        /\ e[2] \in G.nodes
        /\ pq' = pq \ {e}
        /\ dist_atual' = e[1]
        /\ no_atual' = e[2]
        /\ visitados' = visitados \cup {e[2]}
        /\ vizinhos' = Neighbors(G, e[2])
    /\ pc' = "for"
    /\ UNCHANGED <<input, distancias, predecessores, caminho, result>>

\* Lines 64-78: G.neighbors of a node that is not in the graph raises.
PopUnknown ==
    /\ pc = "while"
    /\ pq # {}
    /\ LET e == HeapMin(pq) IN
        /\ e[2] # destino
        /\ e[2] \notin visitados
        /\ e[2] \notin G.nodes
        /\ pq' = pq \ {e}
        /\ dist_atual' = e[1]
        /\ no_atual' = e[2]
        /\ visitados' = visitados \cup {e[2]}
    /\ pc' = "raised"
    /\ result' = [kind |-> "raise", error |-> "NetworkXError"]
    /\ UNCHANGED <<input, distancias, predecessores, vizinhos, caminho>>

\* Lines 78-86: the next neighbour has no 'length', continue.
ForSkip ==
    /\ pc = "for"
    /\ \E v \in vizinhos :
        /\ ~HasPeso(G, no_atual, v)
        /\ vizinhos' = vizinhos \ {v}
    /\ UNCHANGED <<input, distancias, pq, predecessores, visitados, dist_atual,
                   no_atual, caminho, pc, result>>

\* ForRelax with <= in place of <.
ForRelax_OnTie ==
    /\ pc = "for"
    /\ \E v \in vizinhos :
        /\ HasPeso(G, no_atual, v)
        /\ LET distancia == dist_atual + Peso(G, no_atual, v) IN
            /\ distancia <= distancias[v]
            /\ distancias' = [distancias EXCEPT ![v] = distancia]
            /\ predecessores' = [predecessores EXCEPT ![v] = no_atual]
            /\ pq' = pq \cup {<<distancia, v>>}
        /\ vizinhos' = vizinhos \ {v}
    /\ UNCHANGED <<input, visitados, dist_atual, no_atual, caminho, pc, result>>

\* Lines 78-96: the next neighbour is relaxed and its label improves.
ForRelax ==
    /\ pc = "for"
    /\ \E v \in vizinhos :
        /\ HasPeso(G, no_atual, v)
        /\ LET distancia == dist_atual + Peso(G, no_atual, v) IN
            /\ distancia < distancias[v]
            /\ distancias' = [distancias EXCEPT ![v] = distancia]
            /\ predecessores' = [predecessores EXCEPT ![v] = no_atual]
            /\ pq' = pq \cup {<<distancia, v>>}
        /\ vizinhos' = vizinhos \ {v}
    /\ UNCHANGED <<input, visitados, dist_atual, no_atual, caminho, pc, result>>

\* Lines 78-92: the next neighbour is relaxed and its label stays.
ForKeep ==
    /\ pc = "for"
    /\ \E v \in vizinhos :
        /\ HasPeso(G, no_atual, v)
        /\ ~(dist_atual + Peso(G, no_atual, v) < distancias[v])
        /\ vizinhos' = vizinhos \ {v}
    /\ UNCHANGED <<input, distancias, pq, predecessores, visitados, dist_atual,
                   no_atual, caminho, pc, result>>

\* Line 78: the neighbours are exhausted, back to the while.
ForEnd ==
    /\ pc = "for"
    /\ vizinhos = {}
    /\ pc' = "while"
    /\ UNCHANGED <<input, distancias, pq, predecessores, visitados, dist_atual,
                   no_atual, vizinhos, caminho, result>>

\* Line 103: predecessores[destino] of a destination that is no node raises.
ReconstructUnknown ==
    /\ pc = "reconstruct"
    /\ destino \notin DOMAIN predecessores
    /\ caminho' = <<>>
    /\ no_atual' = destino
    /\ pc' = "raised"
    /\ result' = [kind |-> "raise", error |-> "KeyError"]
    /\ UNCHANGED <<input, distancias, pq, predecessores, visitados, dist_atual, vizinhos>>

\* ReturnNoPath without the test destino != origem.
ReturnNoPath_NoOriginTest ==
    /\ pc = "reconstruct"
    /\ destino \in DOMAIN predecessores
    /\ predecessores[destino] = None
    /\ caminho' = <<>>
    /\ no_atual' = destino
    /\ pc' = "done"
    /\ result' = [kind |-> "return", caminho |-> <<>>, custo |-> Infinity]
    /\ UNCHANGED <<input, distancias, pq, predecessores, visitados, dist_atual, vizinhos>>

\* Lines 99-104: no predecessor and destino != origem: no path.
ReturnNoPath ==
    /\ pc = "reconstruct"
    /\ destino \in DOMAIN predecessores
    /\ predecessores[destino] = None /\ destino # origem
    /\ caminho' = <<>>
    /\ no_atual' = destino
    /\ pc' = "done"
    /\ result' = [kind |-> "return", caminho |-> <<>>, custo |-> Infinity]
    /\ UNCHANGED <<input, distancias, pq, predecessores, visitados, dist_atual, vizinhos>>

\* Lines 99-103: the walk over the predecessors starts at the destination.
ReconstructBegin ==
    /\ pc = "reconstruct"
    /\ destino \in DOMAIN predecessores
    /\ ~(predecessores[destino] = None /\ destino # origem)
    /\ caminho' = <<>>
    /\ no_atual' = destino
    /\ pc' = "walk"
    /\ UNCHANGED <<input, distancias, pq, predecessores, visitados, dist_atual,
                   vizinhos, result>>

\* The longest walk the model follows: one more node than a walk without a
\* repeated node can have.
MaxWalk == NumNodes + 1

\* Lines 106-108: one more node of the path.
WalkStep ==
    /\ pc = "walk"
    /\ no_atual # None
    /\ Len(caminho) < MaxWalk
    /\ caminho' = Append(caminho, no_atual)
    /\ no_atual' = predecessores[no_atual]
    /\ UNCHANGED <<input, distancias, pq, predecessores, visitados, dist_atual,
                   vizinhos, pc, result>>

\* list.reverse()
Reverse(s) == [i \in 1..Len(s) |-> s[Len(s) + 1 - i]]

\* Lines 106-113: the walk ended, the path is reversed and returned.
Return ==
    /\ pc = "walk"
    /\ no_atual = None
    /\ caminho' = Reverse(caminho)
    /\ pc' = "done"
    /\ result' = [kind |-> "return", caminho |-> Reverse(caminho),
                  custo |-> distancias[destino]]
    /\ UNCHANGED <<input, distancias, pq, predecessores, visitados, dist_atual,
                   no_atual, vizinhos>>

Next ==
    \/ Initialize
    \/ WhileExit
    \/ PopBreak
    \/ PopSkip
    \/ PopVisit
    \/ PopUnknown
    \/ ForSkip
    \/ ForRelax
    \/ ForKeep
    \/ ForEnd
    \/ ReconstructUnknown
    \/ ReturnNoPath
    \/ ReconstructBegin
    \/ WalkStep
    \/ Return

Spec == Init /\ [][Next]_vars

\* The call runs to completion without yielding: a step that can be taken is taken.
FairSpec == Init /\ [][Next]_vars /\ WF_vars(Next)

\* The same call on graphs that may also carry negative weights.
AnyWeights == NegativeWeights \cup Weights

InitAny == Call(MultiGraphs(AnyWeights)) \/ Call(SimpleGraphs(AnyWeights))

SpecAny == InitAny /\ [][Next]_vars

\* ------------------------------------------------- what the claims speak of
\* The lengths of all the parallel edges between u and v.
Lengths(g, u, v) ==
    IF {u, v} \notin DOMAIN g.adj THEN {}
    ELSE IF g.multigraph
    THEN {e.attr.length : e \in {x \in g.adj[{u, v}] : HasLength(x.attr)}}
    ELSE {g.adj[{u, v}].length : x \in {y \in {0} : HasLength(g.adj[{u, v}])}}

SetMin(S) == CHOOSE x \in S : \A y \in S : x <= y

\* The minimum weight among the parallel edges between u and v.
MinParallel(g, u, v) == SetMin(Lengths(g, u, v))

\* The number of parallel edges between u and v.
EdgeCount(g, u, v) ==
    IF {u, v} \notin DOMAIN g.adj THEN 0
    ELSE IF g.multigraph THEN Cardinality(g.adj[{u, v}]) ELSE 1

\* Every edge of the graph carries a weight, as the data model requires.
AllWeighted(g) ==
    \A p \in DOMAIN g.adj :
        IF g.multigraph THEN \A e \in g.adj[p] : HasLength(e.attr)
        ELSE HasLength(g.adj[p])

NonNegative(g) == \A u, v \in g.nodes : \A w \in Lengths(g, u, v) : w >= 0

\* A query the contract covers: a weighted graph and two of its nodes.
ValidQuery == AllWeighted(G) /\ origem \in G.nodes /\ destino \in G.nodes

\* Brute force: the least cost over all paths without a repeated node from u to
\* d that avoid the nodes in seen; Infinity when there is none.
RECURSIVE BruteMin(_, _, _, _)
BruteMin(g, u, d, seen) ==
    IF u = d THEN 0
    ELSE LET next == {v \in g.nodes \ seen : Lengths(g, u, v) # {}}
             costs == {c \in {MinParallel(g, u, v) + BruteMin(g, v, d, seen \cup {v}) : v \in next} :
                        c < Infinity}
         IN IF costs = {} THEN Infinity ELSE SetMin(costs)

\* The true shortest distance from o to d.
TrueDist(g, o, d) == BruteMin(g, o, d, {o})

\* d can be reached from o along edges of the graph.
Reachable(g, o, d) == TrueDist(g, o, d) < Infinity

Returned == pc = "done" /\ result.kind = "return"

Raised == pc = "raised" /\ result.kind = "raise"

\* The sum, over the consecutive pairs of path p, of the minimum parallel weight.
RECURSIVE WalkCost(_, _)
WalkCost(g, p) ==
    IF Len(p) <= 1 THEN 0
    ELSE MinParallel(g, p[1], p[2]) + WalkCost(g, Tail(p))

\* Every consecutive pair of p is joined by an edge of the graph.
IsWalk(g, p) == \A i \in 1..(Len(p) - 1) : {p[i], p[i + 1]} \in DOMAIN g.adj

Finished == pc \in {"done", "raised"}

\* The weight the search reads for every joined pair is the least of its parallel
\* edges (true of simple graphs and of multigraphs whose key 0 is the lightest).
KeyZeroMin(g) ==
    \A u, v \in g.nodes :
        Lengths(g, u, v) # {} =>
            (HasPeso(g, u, v) /\ Peso(g, u, v) = MinParallel(g, u, v))

NoRepeat(s) == \A i, j \in 1..Len(s) : i # j => s[i] # s[j]

\* The main loop extracts an entry whose node is not visited (the destination
\* at the early exit included).
Extract == pc = "while" /\ pq # {} /\ pc' \in {"for", "reconstruct"}

\* ------------------------------------------------------------------ claims
\* C1: for a weighted graph with non-negative weights and a reachable pair of
\* its nodes, the call returns, and the cost returned is the minimum over all
\* origin-to-destination paths of the sum of the edge weights.
C1_CostIsMinimum ==
    (Finished /\ ValidQuery /\ NonNegative(G) /\ Reachable(G, origem, destino)) =>
        (Returned /\ result.custo = TrueDist(G, origem, destino))

\* C1 holds on the graphs where the weight read for a pair is its minimum.
C1_CostIsMinimum_KeyZeroMin == KeyZeroMin(G) => C1_CostIsMinimum

\* C2: a non-empty returned path starts at the origin, ends at the
\* destination, joins consecutive nodes by edges of the graph, and the sum of
\* the minimum parallel-edge weights along it is the returned cost.
C2_PathIsWalkOfCost ==
    (Returned /\ result.caminho # <<>>) =>
        /\ result.caminho[1] = origem
        /\ result.caminho[Len(result.caminho)] = destino
        /\ IsWalk(G, result.caminho)
        /\ \A i \in 1..(Len(result.caminho) - 1) :
              Lengths(G, result.caminho[i], result.caminho[i + 1]) # {}
        /\ WalkCost(G, result.caminho) = result.custo

\* C2 holds on the graphs where the weight read for a pair is its minimum.
C2_PathIsWalkOfCost_KeyZeroMin == KeyZeroMin(G) => C2_PathIsWalkOfCost

\* C3: when several parallel edges join a pair of nodes, the weight used to
\* relax across the pair is the minimum weight among them, whatever key or
\* order they are stored under.
C3_RelaxUsesMinParallel ==
    (pc = "for" /\ AllWeighted(G)) =>
        \A v \in vizinhos \ {no_atual} :
            EdgeCount(G, no_atual, v) >= 2 =>
                (HasPeso(G, no_atual, v) /\ Peso(G, no_atual, v) = MinParallel(G, no_atual, v))

\* C4: for every node n of the graph, whatever its edges, dijkstra(G, n, n)
\* ends by returning the path [n] with cost 0.
C4_SameNode ==
    (origem = destino /\ origem \in G.nodes) =>
        /\ Finished => result = [kind |-> "return", caminho |-> <<origem>>, custo |-> 0]
        /\ ~Finished => ENABLED Next

C4_SameNode_Witness ==
    /\ Returned
    /\ origem = destino
    /\ result.caminho = <<origem>>
    /\ result.custo = 0
    /\ 0 \in Lengths(G, origem, origem)
    /\ \E v \in G.nodes \ {origem} : Lengths(G, origem, v) # {}

\* C5: for distinct nodes of the graph with no path between them the call
\* returns the empty path and cost +infinity, without raising; and it returns
\* that result only when the destination is unreachable.
C5_NoPathIffUnreachable ==
    (Finished /\ ValidQuery /\ NonNegative(G) /\ origem # destino) =>
        /\ ~Reachable(G, origem, destino) =>
              result = [kind |-> "return", caminho |-> <<>>, custo |-> Infinity]
        /\ (Returned /\ result.caminho = <<>>) => ~Reachable(G, origem, destino)

\* C5 holds on the graphs where the weight read for a pair is its minimum.
C5_NoPathIffUnreachable_KeyZeroMin == KeyZeroMin(G) => C5_NoPathIffUnreachable

\* C6: if the origin or the destination is not a node of the graph (both may be
\* the same absent node), the call never returns a (path, cost) result: it
\* runs on until it ends by raising.
C6_UnknownNodeRaises ==
    (origem \notin G.nodes \/ destino \notin G.nodes) =>
        /\ ~Returned
        /\ pc # "done"
        /\ Finished => Raised
        /\ ~Finished => ENABLED Next

C6_UnknownNodeRaises_Witness ==
    /\ Raised
    /\ result.error = "KeyError"
    /\ origem \in G.nodes
    /\ destino \notin G.nodes
    /\ Cardinality(visitados) >= 2

\* C7: no distance label is computed from a negative weight, and no returned
\* path crosses a pair whose weight read by the search is negative.
C7_NoNegativeWeightUsed ==
    /\ [][\A v \in DOMAIN distancias :
            (pc = "for" /\ distancias'[v] # distancias[v]) => Peso(G, no_atual, v) >= 0]_vars
    /\ [](Returned =>
            \A i \in 1..(Len(result.caminho) - 1) :
                Peso(G, result.caminho[i], result.caminho[i + 1]) >= 0)

\* C8: with non-negative weights, an extracted entry (d, n) of a node not yet
\* visited has d equal to the label of n and to the true shortest distance from
\* the origin to n; the label and predecessor of a visited node never change.
C8_ExtractedIsFinal ==
    /\ [][(Extract /\ ValidQuery /\ NonNegative(G)) =>
            /\ dist_atual' = distancias[no_atual']
            /\ dist_atual' = TrueDist(G, origem, no_atual')]_vars
    /\ [][\A n \in visitados :
            distancias'[n] = distancias[n] /\ predecessores'[n] = predecessores[n]]_vars

\* C8 holds on the graphs where the weight read for a pair is its minimum.
C8_ExtractedIsFinal_KeyZeroMin ==
    /\ [][(Extract /\ ValidQuery /\ NonNegative(G) /\ KeyZeroMin(G)) =>
            /\ dist_atual' = distancias[no_atual']
            /\ dist_atual' = TrueDist(G, origem, no_atual')]_vars
    /\ [][\A n \in visitados :
            distancias'[n] = distancias[n] /\ predecessores'[n] = predecessores[n]]_vars

\* C9: with non-negative weights every call terminates; the main loop ends with
\* the destination extracted or the queue empty; the predecessor of the origin
\* stays unset, and the walk over the predecessors never meets a node twice and
\* ends at the origin.
C9_Terminates ==
    /\ <>Finished
    /\ [](pc = "reconstruct" => (pq = {} \/ no_atual = destino))
    /\ [](origem \in DOMAIN predecessores => predecessores[origem] = None)
    /\ [](pc = "walk" =>
            /\ NoRepeat(caminho)
            /\ no_atual # None => \A i \in 1..Len(caminho) : caminho[i] # no_atual)
    /\ []((Returned /\ result.caminho # <<>>) => result.caminho[1] = origem)

C9_Terminates_Witness ==
    /\ Returned
    /\ Len(result.caminho) = NumNodes
    /\ \E i \in 1..(Len(result.caminho) - 1) :
          0 \in Lengths(G, result.caminho[i], result.caminho[i + 1])

\* C10: extracting an entry whose node is already visited removes the entry and
\* changes no label, no predecessor, not the visited set, and pushes nothing;
\* a node is marked visited, and its neighbours taken up, only when it was not
\* visited before.
C10_LazyDeletion ==
    /\ [][(pc = "while" /\ pq # {} /\ HeapMin(pq)[2] \in visitados) =>
            /\ distancias' = distancias
            /\ predecessores' = predecessores
            /\ visitados' = visitados
            /\ vizinhos' = vizinhos
            /\ pq' = pq \ {HeapMin(pq)}
            /\ pc' = "while"]_vars
    /\ [][/\ visitados \subseteq visitados'
          /\ visitados' # visitados =>
                (no_atual' \notin visitados /\ visitados' = visitados \cup {no_atual'})
          /\ (pc = "while" /\ pc' = "for") => visitados' # visitados
          /\ (pc = "for" /\ pc' = "for") => (vizinhos' \subseteq vizinhos /\ vizinhos' # vizinhos)]_vars

\* A stale entry has just been discarded: its key exceeds the label of its node.
C10_LazyDeletion_Witness ==
    /\ pc = "while"
    /\ ValidQuery
    /\ NonNegative(G)
    /\ no_atual \in visitados
    /\ dist_atual > distancias[no_atual]

====
